---- MODULE Spec2Model ----
(***************************************************************************)
(* A model of AddPDFBookmark.py: the BookmarkParser (tokenizing one line   *)
(* at a time, the parent/child linkage pass, the serial numbering pass)    *)
(* and the orchestration in __main_core.                                   *)
(*                                                                         *)
(* A Python str is a sequence of one-character strings; a Python index s   *)
(* (0-based) is the element s + 1 of the sequence.                         *)
(***************************************************************************)
EXTENDS Integers, Naturals, Sequences, FiniteSets, TLC

VARIABLES
    exists,          \* whether resources/bookmark.txt can be opened
    bm_list,         \* the lines of the file as read, line terminators kept
    pc,              \* position inside parse()
    line_no,         \* self.__line_no
    page_no_base,    \* self.__page_no_base
    bml,             \* parse(): the list of (layer, title, page_no) tuples
    str,             \* __parse_bookmark: the line being matched
    i,               \* __parse_bookmark: the next position
    layer,           \* __parse_bookmark: the matched level
    title,           \* __parse_bookmark: the matched title
    k,               \* the passes: number of tuples consumed so far
    id,              \* __add_id_parent_id: the last id given
    parent_id_dict,  \* __add_id_parent_id: layer -> id
    linked,          \* __add_id_parent_id: its output list
    serial_no_dict,  \* __add_serial_no_to_title: layer -> counter
    numbered,        \* __add_serial_no_to_title: its output list
    result,          \* what parse() returned: [is_none |-> TRUE] or the list
    exc,             \* the exception parse() raised, if any
    mpc,             \* position inside __main_core
    numPages,        \* input.numPages
    pages,           \* number of pages added to the PdfFileWriter
    bookmarks,       \* the addBookmark calls made, in order
    written          \* whether dist/output.pdf was written

vars == <<exists, bm_list, pc, line_no, page_no_base, bml, str, i, layer, title,
          k, id, parent_id_dict, linked, serial_no_dict, numbered, result, exc,
          mpc, numPages, pages, bookmarks, written>>

parseVars == <<str, i, layer, title>>
passVars == <<k, id, parent_id_dict, linked, serial_no_dict, numbered>>
mainVars == <<mpc, numPages, pages, bookmarks, written>>

----------------------------------------------------------------------------
(* Bounds of the model.                                                    *)

\* most body lines in a file of Spec
MaxLines == 4
\* longest leading space run of the body line of SpecTok
MaxIndent == 8
\* longest remainder (after the leading spaces) of the body line of SpecTok
MaxRest == 4
\* most pages of resources/input.pdf
MaxPages == 2

----------------------------------------------------------------------------
(* Characters and strings.                                                 *)

SP == " "
NL == "\n"
Digits == {"0", "1", "2", "3", "4", "5", "6", "7", "8", "9"}
DigitSeq == <<"0", "1", "2", "3", "4", "5", "6", "7", "8", "9">>
\* the characters lines of SpecTok are made of
Chars == {SP, "a", "0", "1"}

Spaces(n) == [j \in 1..n |-> SP]

\* str[a:b] of Python, for 0 <= a <= b <= len(str)
Slice(s, a, b) == SubSeq(s, a + 1, b)

\* None where a str is expected (no line is made of this element)
None == <<"None">>

\* int(s) for a string of ASCII digits
RECURSIVE int(_)
int(s) ==
    IF Len(s) = 0 THEN 0
    ELSE 10 * int(SubSeq(s, 1, Len(s) - 1))
         + ((CHOOSE j \in 1..10 : DigitSeq[j] = s[Len(s)]) - 1)

----------------------------------------------------------------------------
(* Exceptions.                                                             *)

NoExc == [type |-> "None"]

\* the line number counted from 0
raise_message_zero_based(ln, message) ==
    [type |-> "RuntimeError", line_no |-> ln - 1, message |-> message]

\* raise RuntimeError('line {}: {}'.format(self.__line_no, message))
raise_message(ln, message) ==
    [type |-> "RuntimeError", line_no |-> ln, message |-> message]

\* a failed dict lookup d[key]
KeyError(key) == [type |-> "KeyError", key |-> key]

\* open() of a file that is not there
IOError == [type |-> "IOError"]

\* results of the __match_* methods: the tuple returned, or the message raised
Ok(next, value) == [ok |-> TRUE, i |-> next, v |-> value]
Err(message) == [ok |-> FALSE, message |-> message]

----------------------------------------------------------------------------
(* The static helpers.                                                     *)

remove_end_line_char(s) ==
    IF Len(s) = 0 THEN None
    ELSE IF s[Len(s)] = NL THEN Slice(s, 0, Len(s) - 1)
    ELSE s

RECURSIVE space_start_index(_, _)
space_start_index(s, start) ==
    IF start < Len(s) /\ s[start + 1] # SP
    THEN space_start_index(s, start + 1)
    ELSE IF start < Len(s) /\ s[start + 1] = SP THEN start ELSE -1

RECURSIVE space_end_index(_, _)
space_end_index(s, start) ==
    IF start < Len(s) /\ s[start + 1] = SP
    THEN space_end_index(s, start + 1)
    ELSE start - 1

check_str_index(s, n) == ~(n < 0 \/ n >= Len(s))

----------------------------------------------------------------------------
(* The tokenizer.                                                          *)

parse_page_no_base(s) ==
    IF s = None \/ Len(s) = 0 THEN Ok(0, 0)
    ELSE IF \E j \in 1..Len(s) : s[j] \notin Digits
    THEN Err("page no not numeric")
    ELSE Ok(0, int(s))

\* match_layer without the multiple-of-4 check
match_layer_any_run(s, st) ==
    IF ~check_str_index(s, st) THEN Err("malformed")
    ELSE IF s[st + 1] # SP THEN Ok(st, 0)
    ELSE LET e == space_end_index(s, st)
             space_len == e - st + 1
         IN  IF ~check_str_index(s, e) THEN Err("malformed")
             ELSE Ok(e + 1, space_len \div 4)

\* space_len / 4 is exact here (space_len % 4 = 0), an int under Python 2 and
\* the equal float under Python 3
match_layer(s, st) ==
    IF ~check_str_index(s, st) THEN Err("malformed")
    ELSE IF s[st + 1] # SP THEN Ok(st, 0)
    ELSE LET e == space_end_index(s, st)
             space_len == e - st + 1
         IN  IF ~check_str_index(s, e) THEN Err("malformed")
             ELSE IF space_len % 4 # 0 THEN Err("layer")
             ELSE Ok(e + 1, space_len \div 4)

match_title(s, st) ==
    IF ~check_str_index(s, st) THEN Err("malformed")
    ELSE LET e == space_start_index(s, st)
         IN  IF ~check_str_index(s, e) THEN Err("malformed")
             ELSE Ok(e, Slice(s, st, e))

match_first_space(s, st) ==
    IF ~check_str_index(s, st) THEN Err("malformed")
    ELSE LET e == space_end_index(s, st)
         IN  IF ~check_str_index(s, e) THEN Err("malformed")
             ELSE Ok(e + 1, None)

\* match_page_no without the base added
match_page_no_no_base(s, st, base) ==
    IF ~check_str_index(s, st) THEN Err("malformed")
    ELSE LET page_no == Slice(s, st, Len(s))
         IN  IF \E j \in 1..Len(page_no) : page_no[j] \notin Digits
             THEN Err("page no not numeric")
             ELSE IF int(page_no) < 1 THEN Err("invalid page no")
             ELSE Ok(Len(s), int(page_no))

match_page_no(s, st, base) ==
    IF ~check_str_index(s, st) THEN Err("malformed")
    ELSE LET page_no == Slice(s, st, Len(s))
         IN  IF \E j \in 1..Len(page_no) : page_no[j] \notin Digits
             THEN Err("page no not numeric")
             ELSE IF int(page_no) < 1 THEN Err("invalid page no")
             ELSE Ok(Len(s), int(page_no) + base)

\* __parse_bookmark: the four matches in sequence, the first failure raised
parse_bookmark(s, base) ==
    LET l == match_layer(s, 0) IN
    IF ~l.ok THEN l ELSE
    LET t == match_title(s, l.i) IN
    IF ~t.ok THEN t ELSE
    LET f == match_first_space(s, t.i) IN
    IF ~f.ok THEN f ELSE
    LET p == match_page_no(s, f.i, base) IN
    IF ~p.ok THEN p ELSE Ok(p.i, <<l.v, t.v, p.v>>)

----------------------------------------------------------------------------
(* The inputs.                                                             *)

\* resources/bookmark.txt as the list its lines are read into: every line keeps
\* its "\n", except that the last line of a file may have none
File(contents, nl) ==
    [j \in 1..Len(contents) |->
        IF j < Len(contents) \/ nl THEN contents[j] \o <<NL>> ELSE contents[j]]

FilesOf(Contents) ==
    {File(c, nl) : c \in Contents, nl \in {TRUE}}
    \cup {File(c, FALSE) : c \in {x \in Contents : Len(x[Len(x)]) > 0}}

\* line 1: empty, a number, not a number
HeaderSet == {<<>>, <<"1", "0">>, <<"1", "a">>}

\* body lines of Spec: levels 0, 1, 2, a blank line and a line with a 2-space
\* indent
LineSet ==
    { <<"a", SP, "1">>,
      Spaces(4) \o <<"a", SP, "1">>,
      Spaces(8) \o <<"a", SP, "1">>,
      <<>>,
      Spaces(2) \o <<"a", SP, "1">> }

Strings(n) == UNION {[1..m -> Chars] : m \in 0..n}

\* body lines of SpecTok: any string over Chars behind any leading space run
TokLineSet == {Spaces(n) \o r : n \in 0..MaxIndent, r \in Strings(MaxRest)}

Bodies(n) == UNION {[1..m -> LineSet] : m \in 0..n}

----------------------------------------------------------------------------
(* parse(), one line per step.                                             *)

EmptyDict == [x \in {} |-> 0]

InitCommon ==
    /\ line_no = 0
    /\ page_no_base = 0
    /\ bml = <<>>
    /\ str = <<>>
    /\ i = 0
    /\ layer = 0
    /\ title = <<>>
    /\ k = 0
    /\ id = 0
    /\ parent_id_dict = EmptyDict
    /\ linked = <<>>
    /\ serial_no_dict = EmptyDict
    /\ numbered = <<>>
    /\ result = [is_none |-> TRUE]
    /\ exc = NoExc
    /\ numPages = 0
    /\ pages = 0
    /\ bookmarks = <<>>
    /\ written = FALSE

Init ==
    /\ exists \in BOOLEAN
    /\ bm_list \in IF exists
                   THEN {<<>>} \cup FilesOf({<<h>> \o b : h \in HeaderSet, b \in Bodies(MaxLines)})
                   ELSE {<<>>}
    /\ pc = "idle"
    /\ mpc = "start"
    /\ InitCommon

\* parser = BookmarkParser('resources/bookmark.txt'); bm_list = parser.parse()
MainStart ==
    /\ mpc = "start"
    /\ mpc' = "parse"
    /\ pc' = "read"
    /\ UNCHANGED <<exists, bm_list, line_no, page_no_base, bml, parseVars, passVars,
                   result, exc, numPages, pages, bookmarks, written>>

\* __read_bookmark_as_list and the empty check of parse()
ReadBookmarkAsList ==
    /\ pc = "read"
    /\ IF ~exists
       THEN /\ exc' = IOError
            /\ pc' = "raised"
            /\ UNCHANGED <<result, line_no, bml>>
       ELSE IF Len(bm_list) = 0
       THEN /\ result' = [is_none |-> TRUE]
            /\ pc' = "returned"
            /\ UNCHANGED <<exc, line_no, bml>>
       ELSE /\ bml' = <<>>
            /\ line_no' = 0
            /\ pc' = "loop"
            /\ UNCHANGED <<exc, result>>
    /\ UNCHANGED <<exists, bm_list, page_no_base, parseVars, passVars, mainVars>>

\* one iteration of the for loop of parse()
ParseLine ==
    /\ pc = "loop"
    /\ line_no < Len(bm_list)
    /\ line_no' = line_no + 1
    /\ LET bm == remove_end_line_char(bm_list[line_no + 1]) IN
       IF line_no' = 1
       THEN LET r == parse_page_no_base(bm) IN
            IF r.ok
            THEN /\ page_no_base' = r.v
                 /\ UNCHANGED <<bml, exc, pc>>
            ELSE /\ exc' = raise_message(line_no', r.message)
                 /\ pc' = "raised"
                 /\ UNCHANGED <<bml, page_no_base>>
       ELSE IF bm = None \/ Len(bm) = 0
       THEN UNCHANGED <<bml, exc, pc, page_no_base>>
       ELSE LET r == parse_bookmark(bm, page_no_base) IN
            IF r.ok
            THEN /\ bml' = Append(bml, r.v)
                 /\ UNCHANGED <<exc, pc, page_no_base>>
            ELSE /\ exc' = raise_message(line_no', r.message)
                 /\ pc' = "raised"
                 /\ UNCHANGED <<bml, page_no_base>>
    /\ UNCHANGED <<exists, bm_list, parseVars, passVars, result, mainVars>>

\* the loop is over: bml = BookmarkParser.__add_id_parent_id(bml) is entered
ParseLoopEnd ==
    /\ pc = "loop"
    /\ line_no = Len(bm_list)
    /\ pc' = "add_id"
    /\ k' = 0
    /\ id' = 0
    /\ parent_id_dict' = EmptyDict
    /\ linked' = <<>>
    /\ UNCHANGED <<exists, bm_list, line_no, page_no_base, bml, parseVars,
                   serial_no_dict, numbered, result, exc, mainVars>>

----------------------------------------------------------------------------
(* The linkage pass and the numbering pass.                                *)

\* a dict that keeps the first value stored under a key
DictSet_keep_first(d, key, value) ==
    [x \in DOMAIN d \cup {key} |-> IF x \in DOMAIN d THEN d[x] ELSE value]

\* d[key] = value
DictSet(d, key, value) ==
    [x \in DOMAIN d \cup {key} |-> IF x = key THEN value ELSE d[x]]

\* a lookup that gives None for a missing level (parent_id_dict.get(layer - 1))
lookup_parent_id_get(d, l) ==
    IF l > 0 /\ (l - 1) \in DOMAIN d THEN Ok(0, <<d[l - 1]>>) ELSE Ok(0, <<>>)

\* lines 257-259: parent_id of an entry of level l; <<>> is None, <<n>> is n
lookup_parent_id(d, l) ==
    IF l > 0
    THEN IF (l - 1) \in DOMAIN d THEN Ok(0, <<d[l - 1]>>) ELSE Err(l - 1)
    ELSE Ok(0, <<>>)

\* one iteration of the for loop of __add_id_parent_id
AddIdEntry ==
    /\ pc = "add_id"
    /\ k < Len(bml)
    /\ k' = k + 1
    /\ id' = id + 1
    /\ LET bm == bml[k + 1]
           p == lookup_parent_id(parent_id_dict, bm[1])
       IN  IF p.ok
           THEN /\ parent_id_dict' = DictSet(parent_id_dict, bm[1], id')
                /\ linked' = Append(linked, <<id', p.v, bm[1], bm[2], bm[3]>>)
                /\ UNCHANGED <<exc, pc>>
           ELSE /\ exc' = KeyError(p.message)
                /\ pc' = "raised"
                /\ UNCHANGED <<parent_id_dict, linked>>
    /\ UNCHANGED <<exists, bm_list, line_no, page_no_base, bml, parseVars,
                   serial_no_dict, numbered, result, mainVars>>

\* __add_id_parent_id returns (None for an empty list, which the next pass
\* passes on as None); bml = BookmarkParser.__add_serial_no_to_title(bml) is entered
AddIdReturn ==
    /\ pc = "add_id"
    /\ k = Len(bml)
    /\ pc' = "add_serial"
    /\ k' = 0
    /\ serial_no_dict' = EmptyDict
    /\ numbered' = <<>>
    /\ UNCHANGED <<exists, bm_list, line_no, page_no_base, bml, parseVars,
                   id, parent_id_dict, linked, result, exc, mainVars>>

\* the counters of deeper levels kept instead of dropped
incremental_serial_no_keep_deeper(old_serial_no_dict, l) ==
    LET d == [x \in (0..l) \cup DOMAIN old_serial_no_dict |->
                 IF x \in DOMAIN old_serial_no_dict THEN old_serial_no_dict[x] ELSE 0]
    IN  [d EXCEPT ![l] = @ + 1]

incremental_serial_no(old_serial_no_dict, l) ==
    LET d == [x \in 0..l |->
                 IF x \in DOMAIN old_serial_no_dict THEN old_serial_no_dict[x] ELSE 0]
    IN  [d EXCEPT ![l] = @ + 1]

\* str(n) for an int n >= 0
RECURSIVE str_of_int(_)
str_of_int(n) ==
    IF n < 10 THEN <<DigitSeq[n + 1]>>
    ELSE str_of_int(n \div 10) \o <<DigitSeq[(n % 10) + 1]>>

RECURSIVE serial_no_upto(_, _)
serial_no_upto(d, n) ==
    IF n < 0 THEN <<>>
    ELSE LET serial_no == serial_no_upto(d, n - 1)
         IN  (IF serial_no # <<>> THEN serial_no \o <<".">> ELSE serial_no)
             \o str_of_int(d[n])

get_serial_no_string(d, l) == serial_no_upto(d, l)

\* one iteration of the for loop of __add_serial_no_to_title
AddSerialEntry ==
    /\ pc = "add_serial"
    /\ k < Len(linked)
    /\ k' = k + 1
    /\ LET bm == linked[k + 1]
           d == incremental_serial_no(serial_no_dict, bm[3])
       IN  /\ serial_no_dict' = d
           /\ numbered' = Append(numbered,
                  <<bm[1], bm[2], bm[3],
                    get_serial_no_string(d, bm[3]) \o <<SP>> \o bm[4], bm[5]>>)
    /\ UNCHANGED <<exists, bm_list, pc, line_no, page_no_base, bml, parseVars,
                   id, parent_id_dict, linked, result, exc, mainVars>>

\* __add_serial_no_to_title returns and parse() returns its value
ParseReturn ==
    /\ pc = "add_serial"
    /\ k = Len(linked)
    /\ result' = IF Len(numbered) = 0 THEN [is_none |-> TRUE]
                 ELSE [is_none |-> FALSE, list |-> numbered]
    /\ pc' = "returned"
    /\ UNCHANGED <<exists, bm_list, line_no, page_no_base, bml, parseVars,
                   passVars, exc, mainVars>>

----------------------------------------------------------------------------
(* __main_core after parse().                                              *)

\* the handler without its return: control falls through to the PDF part
MainCatch_fall_through ==
    /\ mpc = "parse"
    /\ pc = "raised"
    /\ \E n \in 0..MaxPages : numPages' = n
    /\ mpc' = "copy"
    /\ UNCHANGED <<exists, bm_list, pc, line_no, page_no_base, bml, parseVars,
                   passVars, result, exc, pages, bookmarks, written>>

\* except Exception as e: LOG.error(...); return
MainCatch ==
    /\ mpc = "parse"
    /\ pc = "raised"
    /\ mpc' = "done"
    /\ UNCHANGED <<exists, bm_list, pc, line_no, page_no_base, bml, parseVars,
                   passVars, result, exc, numPages, pages, bookmarks, written>>

\* open('resources/input.pdf'), PdfFileReader(i), output = PdfFileWriter()
ReadPdf ==
    /\ mpc = "parse"
    /\ pc = "returned"
    /\ \E n \in 0..MaxPages : numPages' = n
    /\ mpc' = "copy"
    /\ UNCHANGED <<exists, bm_list, pc, line_no, page_no_base, bml, parseVars,
                   passVars, result, exc, pages, bookmarks, written>>

\* open('resources/input.pdf') raises: the second except logs it
ReadPdfError ==
    /\ mpc = "parse"
    /\ pc = "returned"
    /\ mpc' = "done"
    /\ UNCHANGED <<exists, bm_list, pc, line_no, page_no_base, bml, parseVars,
                   passVars, result, exc, numPages, pages, bookmarks, written>>

\* for i in range(0, input.numPages): output.addPage(input.getPage(i))
CopyPages ==
    /\ mpc = "copy"
    /\ pages' = numPages
    /\ mpc' = "bookmarks"
    /\ UNCHANGED <<exists, bm_list, pc, line_no, page_no_base, bml, parseVars,
                   passVars, result, exc, numPages, bookmarks, written>>

\* the addBookmark loop: (title, page_no, parent) per entry, the parent being
\* the bookmark made for parent_id
AddBookmarks ==
    /\ mpc = "bookmarks"
    /\ bookmarks' = IF result.is_none THEN <<>>
                    ELSE [j \in 1..Len(result.list) |->
                             <<result.list[j][4], result.list[j][5], result.list[j][2]>>]
    /\ mpc' = "write"
    /\ UNCHANGED <<exists, bm_list, pc, line_no, page_no_base, bml, parseVars,
                   passVars, result, exc, numPages, pages, written>>

\* __rebuild_dist_dir_and_output_pdf(); output.write(o)
WriteOutput ==
    /\ mpc = "write"
    /\ written' = TRUE
    /\ mpc' = "done"
    /\ UNCHANGED <<exists, bm_list, pc, line_no, page_no_base, bml, parseVars,
                   passVars, result, exc, numPages, pages, bookmarks>>

Next ==
    \/ MainStart
    \/ ReadBookmarkAsList
    \/ ParseLine
    \/ ParseLoopEnd
    \/ AddIdEntry
    \/ AddIdReturn
    \/ AddSerialEntry
    \/ ParseReturn
    \/ MainCatch
    \/ ReadPdf
    \/ ReadPdfError
    \/ CopyPages
    \/ AddBookmarks
    \/ WriteOutput

Spec == Init /\ [][Next]_vars

----------------------------------------------------------------------------
(* The for loop of parse() with __parse_bookmark taken one match at a      *)
(* time, on a header line and one body line.                               *)

TokInit ==
    /\ exists = TRUE
    /\ bm_list \in FilesOf({<<h, b>> : h \in HeaderSet, b \in TokLineSet})
    /\ pc = "loop"
    /\ mpc = "parse"
    /\ InitCommon

\* the for loop of parse() up to the call of __parse_bookmark
TokNextLine ==
    /\ pc = "loop"
    /\ line_no < Len(bm_list)
    /\ line_no' = line_no + 1
    /\ LET bm == remove_end_line_char(bm_list[line_no + 1]) IN
       IF line_no' = 1
       THEN LET r == parse_page_no_base(bm) IN
            IF r.ok
            THEN /\ page_no_base' = r.v
                 /\ UNCHANGED <<str, i, exc, pc>>
            ELSE /\ exc' = raise_message(line_no', r.message)
                 /\ pc' = "raised"
                 /\ UNCHANGED <<str, i, page_no_base>>
       ELSE IF bm = None \/ Len(bm) = 0
       THEN UNCHANGED <<str, i, exc, pc, page_no_base>>
       ELSE /\ str' = bm
            /\ i' = 0
            /\ pc' = "layer"
            /\ UNCHANGED <<exc, page_no_base>>
    /\ UNCHANGED <<exists, bm_list, bml, layer, title, passVars, result, mainVars>>

TokMatchLayer ==
    /\ pc = "layer"
    /\ LET r == match_layer(str, i) IN
       IF r.ok
       THEN /\ i' = r.i
            /\ layer' = r.v
            /\ pc' = "title"
            /\ UNCHANGED exc
       ELSE /\ exc' = raise_message(line_no, r.message)
            /\ pc' = "raised"
            /\ UNCHANGED <<i, layer>>
    /\ UNCHANGED <<exists, bm_list, line_no, page_no_base, bml, str, title,
                   passVars, result, mainVars>>

TokMatchTitle ==
    /\ pc = "title"
    /\ LET r == match_title(str, i) IN
       IF r.ok
       THEN /\ i' = r.i
            /\ title' = r.v
            /\ pc' = "first_space"
            /\ UNCHANGED exc
       ELSE /\ exc' = raise_message(line_no, r.message)
            /\ pc' = "raised"
            /\ UNCHANGED <<i, title>>
    /\ UNCHANGED <<exists, bm_list, line_no, page_no_base, bml, str, layer,
                   passVars, result, mainVars>>

TokMatchFirstSpace ==
    /\ pc = "first_space"
    /\ LET r == match_first_space(str, i) IN
       IF r.ok
       THEN /\ i' = r.i
            /\ pc' = "page_no"
            /\ UNCHANGED exc
       ELSE /\ exc' = raise_message(line_no, r.message)
            /\ pc' = "raised"
            /\ UNCHANGED i
    /\ UNCHANGED <<exists, bm_list, line_no, page_no_base, bml, str, layer, title,
                   passVars, result, mainVars>>

\* __match_page_no, return (layer, title, page_no), bml.append(...)
TokMatchPageNo ==
    /\ pc = "page_no"
    /\ LET r == match_page_no(str, i, page_no_base) IN
       IF r.ok
       THEN /\ i' = r.i
            /\ bml' = Append(bml, <<layer, title, r.v>>)
            /\ pc' = "loop"
            /\ UNCHANGED exc
       ELSE /\ exc' = raise_message(line_no, r.message)
            /\ pc' = "raised"
            /\ UNCHANGED <<i, bml>>
    /\ UNCHANGED <<exists, bm_list, line_no, page_no_base, str, layer, title,
                   passVars, result, mainVars>>

TokNext ==
    \/ TokNextLine
    \/ TokMatchLayer
    \/ TokMatchTitle
    \/ TokMatchFirstSpace
    \/ TokMatchPageNo

SpecTok == TokInit /\ [][TokNext]_vars

----------------------------------------------------------------------------
(* The input as the claims describe it.                                    *)

\* line j of the file without its line terminator
Content(j) ==
    LET r == bm_list[j]
    IN  IF Len(r) > 0 /\ r[Len(r)] = NL THEN SubSeq(r, 1, Len(r) - 1) ELSE r

AllDigits(s) == \A j \in 1..Len(s) : s[j] \in Digits

RECURSIVE Pow10(_)
Pow10(n) == IF n = 0 THEN 1 ELSE 10 * Pow10(n - 1)

DigitValue(c) == CHOOSE v \in 0..9 : DigitSeq[v + 1] = c

RECURSIVE PlaceSum(_, _)
PlaceSum(s, j) ==
    IF j > Len(s) THEN 0
    ELSE DigitValue(s[j]) * Pow10(Len(s) - j) + PlaceSum(s, j + 1)

\* the base-10 value of a digit string
DecimalValue(s) == PlaceSum(s, 1)

\* the length of the leading space run of s
LeadingSpaces(s) ==
    CHOOSE n \in 0..Len(s) :
        /\ \A j \in 1..n : s[j] = SP
        /\ n = Len(s) \/ s[n + 1] # SP

\* the end of the maximal run of non-space characters that starts after n
NonSpaceEnd(s, n) ==
    CHOOSE m \in n..Len(s) :
        /\ \A j \in (n + 1)..m : s[j] # SP
        /\ m = Len(s) \/ s[m + 1] = SP

\* the start of the maximal digit run that ends s (the characters before it)
DigitRunStart(s) ==
    CHOOSE q \in 0..Len(s) :
        /\ \A j \in (q + 1)..Len(s) : s[j] \in Digits
        /\ q = 0 \/ s[q] \notin Digits

\* the offset line 1 states
HeaderBase == IF Len(Content(1)) = 0 THEN 0 ELSE DecimalValue(Content(1))

\* (4k spaces)(>= 1 non-space)(>= 1 spaces)(>= 1 digits of value >= 1, to the end)
WellFormed(s) ==
    \E n \in {x \in 0..Len(s) : x % 4 = 0 /\ \A j \in 1..x : s[j] = SP} :
        \E m \in {x \in (n + 1)..Len(s) : \A j \in (n + 1)..x : s[j] # SP} :
            \E q \in {x \in (m + 1)..Len(s) : \A j \in (m + 1)..x : s[j] = SP} :
                /\ q < Len(s)
                /\ \A j \in (q + 1)..Len(s) : s[j] \in Digits
                /\ DecimalValue(SubSeq(s, q + 1, Len(s))) >= 1

----------------------------------------------------------------------------
(* C4 and C5, under SpecTok.                                               *)

\* C4: every body line __parse_bookmark accepts yields (k, t, d + base): k is the
\* length of the leading space run divided by 4, exactly; t is the maximal run of
\* non-space characters after the indent, at least one character; d >= 1 is the
\* base-10 value of the digit run that ends the line; base is the offset of line 1
\* (0 when line 1 is empty), and it never changes after line 1.
C4_AcceptedTuple ==
    /\ (line_no >= 1 /\ AllDigits(Content(1))) => page_no_base = HeaderBase
    /\ Len(bml) >= 1 =>
          LET s == Content(2)
              n == LeadingSpaces(s)
              m == NonSpaceEnd(s, n)
              q == DigitRunStart(s)
              d == DecimalValue(SubSeq(s, q + 1, Len(s)))
          IN  /\ bml[1][1] * 4 = n
              /\ bml[1][2] = SubSeq(s, n + 1, m)
              /\ Len(bml[1][2]) >= 1
              /\ q < Len(s)
              /\ d >= 1
              /\ bml[1][3] = d + HeaderBase

\* a level-1 line was accepted under a base of 10
C4_Witness ==
    /\ Len(bml) = 1
    /\ bml[1][1] = 1
    /\ page_no_base = 10
    /\ bml[1][3] > page_no_base

\* C5: a non-empty body line that is not of the form (4k spaces)(>= 1 non-space)
\* (>= 1 spaces)(>= 1 digits, value >= 1, to the end of the line) is rejected with
\* an error and no entry is emitted for it.
C5_IllFormedRejected ==
    (Len(bm_list) >= 2 /\ Len(Content(2)) > 0 /\ ~WellFormed(Content(2))) =>
        /\ bml = <<>>
        /\ (line_no = 2 /\ pc \in {"loop", "raised"}) =>
              /\ pc = "raised"
              /\ exc.type = "RuntimeError"
              /\ exc.line_no = 2

\* a line with a 5-space indent and one whose page field is "0" were rejected
C5_Witness ==
    /\ line_no = 2
    /\ pc = "raised"
    /\ \/ LeadingSpaces(Content(2)) = 5 /\ exc.message = "layer"
       \/ exc.message = "invalid page no"

----------------------------------------------------------------------------
(* The entries as the claims describe them.                                *)

Min(S) == CHOOSE x \in S : \A y \in S : x <= y
Max(S) == CHOOSE x \in S : \A y \in S : x >= y

\* the serial number of a numbered title: the characters before its first space
SerialOf(t) == SubSeq(t, 1, Min({j \in 1..Len(t) : t[j] = SP}) - 1)

\* a string cut at its dots
RECURSIVE SplitDots(_)
SplitDots(s) ==
    LET dots == {j \in 1..Len(s) : s[j] = "."}
    IN  IF dots = {} THEN <<s>>
        ELSE <<SubSeq(s, 1, Min(dots) - 1)>>
             \o SplitDots(SubSeq(s, Min(dots) + 1, Len(s)))

\* the dot-separated components of the serial number of a numbered title
Components(t) ==
    LET parts == SplitDots(SerialOf(t))
    IN  [j \in 1..Len(parts) |-> DecimalValue(parts[j])]

\* some level L > 0 occurs with no level L - 1 before it
HierarchyViolation(lv) ==
    \E n \in 1..Len(lv) : lv[n] > 0 /\ \A x \in 1..(n - 1) : lv[x] # lv[n] - 1

BodyLines == 2..Len(bm_list)

GrammarBad(j) ==
    IF j = 1 THEN ~AllDigits(Content(1))
    ELSE Len(Content(j)) > 0 /\ ~parse_bookmark(Content(j), 0).ok

Tokenizes(j) == j >= 2 /\ Len(Content(j)) > 0 /\ parse_bookmark(Content(j), 0).ok

LevelOfLine(j) == parse_bookmark(Content(j), 0).v[1]

\* line j is an entry of level L > 0 with no entry of level L - 1 before it
HierarchyBad(j) ==
    /\ Tokenizes(j)
    /\ LevelOfLine(j) > 0
    /\ \A x \in 2..(j - 1) : Tokenizes(x) => LevelOfLine(x) # LevelOfLine(j) - 1

\* the line of the n-th entry
LineOfEntry(n) ==
    CHOOSE j \in BodyLines :
        Len(Content(j)) > 0 /\ Cardinality({x \in 2..j : Len(Content(x)) > 0}) = n

Returned == pc = "returned" /\ ~result.is_none

----------------------------------------------------------------------------
(* C1, C2, C3, under Spec.                                                 *)

\* C1: in the list a successful parse() returns, an entry of level 0 has parentId
\* None and an entry of level L > 0 has as parentId the id of the nearest
\* preceding entry whose level is L - 1.
C1_ParentLinkage ==
    Returned =>
        \A j \in 1..Len(result.list) :
            LET e == result.list[j]
                before == {x \in 1..(j - 1) : result.list[x][3] = e[3] - 1}
            IN  IF e[3] = 0 THEN e[2] = <<>>
                ELSE before # {} /\ e[2] = <<result.list[Max(before)][1]>>

\* a list was returned in which the parent of a level-1 entry is the second of
\* two level-0 entries before it
C1_Witness ==
    /\ Returned
    /\ \E j \in 3..Len(result.list) :
          /\ result.list[j][3] = 1
          /\ result.list[j][2] = <<2>>
          /\ result.list[1][3] = 0
          /\ result.list[2][3] = 0

\* C2: when every line tokenizes, parse() raises (and returns no list) if and
\* only if some entry of level L > 0 has no entry of level L - 1 before it; an
\* entry of level > 0 never comes out with parentId None.
C2_HierarchyAborts ==
    (/\ exists
     /\ pc \in {"returned", "raised"}
     /\ \A j \in 1..Len(bm_list) : ~GrammarBad(j)) =>
        /\ (pc = "raised") <=> HierarchyViolation([n \in 1..Len(bml) |-> bml[n][1]])
        /\ pc = "raised" => result.is_none /\ bookmarks = <<>>
        /\ Returned =>
              \A j \in 1..Len(result.list) :
                  result.list[j][3] > 0 => result.list[j][2] # <<>>

\* parse() was aborted by level 2 directly after level 0
C2_Witness ==
    /\ pc = "raised"
    /\ exc.type = "KeyError"
    /\ exc.key = 1
    /\ Len(bml) >= 2
    /\ bml[1][1] = 0

----------------------------------------------------------------------------
(* C6 to C10, under Spec.                                                  *)

\* C6: every error parse() propagates, from tokenizing a line or from the
\* linkage, carries the 1-based number of the line that triggered it.
C6_ErrorsCarryLineNo ==
    (pc = "raised" /\ exists) =>
        /\ exc.type = "RuntimeError"
        /\ exc.line_no \in 1..Len(bm_list)

ErrLine == IF exc.type = "RuntimeError" THEN exc.line_no ELSE LineOfEntry(k)

\* C8: the error parse() raises is the one of the earliest offending line of the
\* input, be it a grammar violation or a hierarchy violation, and no list is
\* returned.
C8_EarliestOffendingLine ==
    (pc = "raised" /\ exists) =>
        /\ result.is_none
        /\ ErrLine = Min({j \in 1..Len(bm_list) : GrammarBad(j) \/ HierarchyBad(j)})

\* C8 as amended: parse() raises at the first error it meets, and it meets every
\* grammar violation before any hierarchy violation: the error is the one of the
\* earliest line that does not tokenize if there is one, and otherwise the one of
\* the earliest entry of a level L > 0 with no entry of level L - 1 before it. No
\* list is returned, and parse() returns only when no line offends.
C8_FirstErrorMet ==
    LET grammar == {j \in 1..Len(bm_list) : GrammarBad(j)}
        hierarchy == {j \in 1..Len(bm_list) : HierarchyBad(j)}
    IN  /\ (pc = "raised" /\ exists) =>
              /\ result.is_none
              /\ IF grammar # {}
                 THEN exc.type = "RuntimeError" /\ exc.line_no = Min(grammar)
                 ELSE /\ exc.type = "KeyError"
                      /\ hierarchy # {}
                      /\ LineOfEntry(k) = Min(hierarchy)
                      /\ exc.key = LevelOfLine(Min(hierarchy)) - 1
        /\ pc = "returned" => grammar = {} /\ hierarchy = {}

\* a grammar error was raised for a line behind a line that breaks the hierarchy
C8_Witness ==
    /\ pc = "raised"
    /\ exc.type = "RuntimeError"
    /\ \E j \in 2..(exc.line_no - 1) : HierarchyBad(j)

\* the entry of the returned list with a given id
EntryOfId(n) == result.list[CHOOSE j \in 1..Len(result.list) : result.list[j][1] = n]

\* C9: in the list a successful parse() returns, the serial number of an entry
\* with a parent is the serial number of that parent with one more component.
C9_SerialExtendsParent ==
    Returned =>
        \A j \in 1..Len(result.list) :
            LET e == result.list[j]
            IN  e[2] # <<>> =>
                    LET c == Components(e[4])
                        pc_ == Components(EntryOfId(e[2][1])[4])
                    IN  /\ Len(c) = Len(pc_) + 1
                        /\ SubSeq(c, 1, Len(pc_)) = pc_

\* C10: in the list a successful parse() returns, every component of every
\* serial number is at least 1.
C10_NoZeroComponent ==
    Returned =>
        \A j \in 1..Len(result.list) :
            \A x \in 1..(result.list[j][3] + 1) :
                Components(result.list[j][4])[x] >= 1

====
